---- MODULE Spec2Model ----
(***************************************************************************)
(* The selection state machine of DateRangePicker                          *)
(* (src/registry/new-york/ui/date-range-picker.tsx).                       *)
(*                                                                         *)
(* A Date is modelled by what getTime() returns: a timestamp in 0..MaxT,   *)
(* or NaN for an Invalid Date.  A bound of a range that is not set is      *)
(* Undef.  A DateRange | undefined is a record; the field "defined" is     *)
(* FALSE for undefined and TRUE for a range object (an object is truthy    *)
(* whatever its bounds are).                                               *)
(*                                                                         *)
(* The props value, predefinedRanges and the three option flags are held   *)
(* in variables; the host supplies an onChange callback, and the values it *)
(* is called with during the last handler are recorded in "fired".         *)
(***************************************************************************)
EXTENDS Integers, Sequences, FiniteSets, TLC

VARIABLES
    value,                    \* prop value: the committed range
    tempRange,                \* useState tempRange: the draft
    open,                     \* useState open
    predefinedRanges,         \* prop predefinedRanges: the catalog
    applyOnPredefinedSelect,  \* prop
    clearOnSelect,            \* prop
    closeOnClear,             \* prop
    op,                       \* the handler that ran last
    arg,                      \* the range it was called with (if any)
    fired,                    \* the onChange calls it made, in order
    label,                    \* the label the Select reported to it (if any)
    applies,                  \* how many times in a row handleApply has just run
    arg1,                     \* first argument of a Range Model function
    arg2,                     \* second argument of a Range Model function
    result,                   \* the function applied last and what it returned
    now,                      \* what new Date() reads
    reads,                    \* what new Date() read while the module loaded
    rangesProp,               \* prop predefinedRanges as the caller passes it
    minDate,                  \* prop minDate
    maxDateProp,              \* prop maxDate as the caller passes it
    showCalendar,             \* prop
    showPredefinedRanges,     \* prop
    hostAdopts                \* the host sets value to what onChange reports

vars == <<value, tempRange, open, predefinedRanges, applyOnPredefinedSelect,
          clearOnSelect, closeOnClear, op, arg, fired, label, applies,
          arg1, arg2, result, now, reads, rangesProp,
          minDate, maxDateProp, showCalendar, showPredefinedRanges, hostAdopts>>

props == <<predefinedRanges, applyOnPredefinedSelect, clearOnSelect, closeOnClear>>

\* the arguments and the result of the Range Model functions
pure == <<arg1, arg2, result>>

\* the clock, the props no handler reads, and the host
env == <<now, reads, rangesProp, minDate, maxDateProp,
         showCalendar, showPredefinedRanges, hostAdopts>>

(* ---------------------------- bounds ----------------------------------- *)

MaxT == 2            \* timestamps are 0..MaxT
TicksPerDay == 2     \* timestamps d*TicksPerDay .. d*TicksPerDay + TicksPerDay - 1 are day d
MaxApplies == 2      \* the count of handleApply calls in a row stops here
MaxClock == 2        \* the clock reads Epoch .. Epoch + MaxClock

(* ---------------------------- dates ------------------------------------ *)

NaN == -1            \* getTime() of an Invalid Date
Undef == -2          \* a bound that is not set

Timestamps == 0..MaxT
Dates == Timestamps \cup {NaN}
OptDates == Dates \cup {Undef}

undefined == [defined |-> FALSE, from |-> Undef, to |-> Undef]

RangeOf(f, t) == [defined |-> TRUE, from |-> f, to |-> t]

\* the type DateRange of react-day-picker: an object whose bounds may be unset
DateRange == {RangeOf(f, t) : f \in OptDates, t \in OptDates}

\* DateRange | undefined
OptDateRange == DateRange \cup {undefined}

\* date-fns isValid
isValid(d) == d # NaN

\* the relational operator <= on two Dates: false when either is Invalid
DateLe(a, b) == a # NaN /\ b # NaN /\ a <= b

\* !range?.from : the range is undefined or its from is unset
NoFrom(range) == ~range.defined \/ range.from = Undef

NoTo(range) == ~range.defined \/ range.to = Undef

\* isValidDateRange without the comparison of the two bounds
isValidDateRangeNoOrder(range) ==
    IF NoFrom(range) \/ NoTo(range)
    THEN FALSE
    ELSE isValid(range.from) /\ isValid(range.to)

\* isValidDateRange with < in place of <=
isValidDateRangeStrict(range) ==
    IF NoFrom(range) \/ NoTo(range)
    THEN FALSE
    ELSE isValid(range.from) /\ isValid(range.to)
         /\ DateLe(range.from, range.to) /\ range.from # range.to

isValidDateRange(range) ==
    IF NoFrom(range) \/ NoTo(range)
    THEN FALSE
    ELSE isValid(range.from) /\ isValid(range.to) /\ DateLe(range.from, range.to)

(* ---------------------------- catalogs --------------------------------- *)

Labels == {"A", "B"}

\* no label was reported
NoLabel == ""

PredefinedRange == [label : Labels, value : DateRange]

\* the values of the shortcuts a caller supplies: complete valid ranges, a
\* reversed one, one whose to is unset and one with an Invalid Date
ShortcutValues ==
    { RangeOf(0, 0), RangeOf(0, MaxT), RangeOf(MaxT, 0), RangeOf(0, Undef),
      RangeOf(NaN, MaxT) }

\* the catalogs a caller supplies: one with distinct labels, one where a label
\* occurs twice, and one whose values are not complete valid ranges
Catalogs ==
    { <<[label |-> "A", value |-> RangeOf(0, 0)],
        [label |-> "B", value |-> RangeOf(0, MaxT)]>>,
      <<[label |-> "B", value |-> RangeOf(0, MaxT)],
        [label |-> "B", value |-> RangeOf(0, 0)]>>,
      <<[label |-> "A", value |-> RangeOf(MaxT, 0)],
        [label |-> "A", value |-> RangeOf(0, Undef)],
        [label |-> "B", value |-> RangeOf(NaN, MaxT)]>> }

(* ---------------------------- calendar --------------------------------- *)

\* the lengths in days of the months; they repeat in this order
MonthLengths == <<3, 2>>
CycleDays == MonthLengths[1] + MonthLengths[2]

dayOf(t) == t \div TicksPerDay
timeOfDay(t) == t % TicksPerDay

\* the number of the month a day lies in, its first day and its length
monthIndex(d) ==
    2 * (d \div CycleDays) + (IF d % CycleDays < MonthLengths[1] THEN 0 ELSE 1)
monthFirstDay(m) ==
    (m \div 2) * CycleDays + (IF m % 2 = 0 THEN 0 ELSE MonthLengths[1])
monthDays(m) == MonthLengths[(m % 2) + 1]

\* date-fns
startOfDay(t) == dayOf(t) * TicksPerDay
endOfDay(t) == dayOf(t) * TicksPerDay + TicksPerDay - 1
subDays(t, amount) == t - amount * TicksPerDay
startOfMonth(t) == monthFirstDay(monthIndex(dayOf(t))) * TicksPerDay
endOfMonth(t) ==
    LET m == monthIndex(dayOf(t))
    IN (monthFirstDay(m) + monthDays(m)) * TicksPerDay - 1

\* subMonths keeps the day of the month, or takes the last day of the target
\* month if that is earlier, and keeps the time of day
subMonths(t, amount) ==
    LET d == dayOf(t)
        m == monthIndex(d) - amount
        dayOfMonth == d - monthFirstDay(monthIndex(d))
        lastOfMonth == monthDays(m) - 1
    IN (monthFirstDay(m) + (IF dayOfMonth < lastOfMonth THEN dayOfMonth ELSE lastOfMonth))
           * TicksPerDay + timeOfDay(t)

\* the clock: the last tick of a month and the ticks after it
Epoch == 7 * CycleDays * TicksPerDay - 1
Clock == Epoch .. (Epoch + MaxClock)

\* the twelve readings of new Date() in the array literal, in source order
\* the clock never runs backwards: it has ticked a[k] readings in when it
\* reaches Epoch + k
Reads ==
    {[i \in 1..12 |-> Epoch + Cardinality({k \in 1..MaxClock : a[k] < i})] :
        a \in [1..MaxClock -> 0..12]}

Entry(l, f, t) == [label |-> l, value |-> RangeOf(f, t)]

\* the array literal with Last 7 Days reaching seven days back
DefaultRangesSevenBack(r) ==
    << Entry("Today", startOfDay(r[1]), endOfDay(r[2])),
       Entry("Yesterday", startOfDay(subDays(r[3], 1)), endOfDay(subDays(r[4], 1))),
       Entry("Last 7 Days", subDays(r[5], 7), r[6]),
       Entry("Last 30 Days", subDays(r[7], 29), r[8]),
       Entry("This Month", startOfMonth(r[9]), endOfMonth(r[10])),
       Entry("Last Month", startOfMonth(subMonths(r[11], 1)),
                           endOfMonth(subMonths(r[12], 1))) >>

\* the array literal of defaultPredefinedRanges, r[i] being the i-th new Date()
DefaultRanges(r) ==
    << Entry("Today", startOfDay(r[1]), endOfDay(r[2])),
       Entry("Yesterday", startOfDay(subDays(r[3], 1)), endOfDay(subDays(r[4], 1))),
       Entry("Last 7 Days", subDays(r[5], 6), r[6]),
       Entry("Last 30 Days", subDays(r[7], 29), r[8]),
       Entry("This Month", startOfMonth(r[9]), endOfMonth(r[10])),
       Entry("Last Month", startOfMonth(subMonths(r[11], 1)),
                           endOfMonth(subMonths(r[12], 1))) >>

\* the default built on every render
defaultPredefinedRangesPerRender == DefaultRanges([i \in 1..12 |-> now])

\* the module constant: the array literal is evaluated once, as the module loads
defaultPredefinedRanges == DefaultRanges(reads)

\* the prop predefinedRanges: not passed, or a list
NotPassed == [passed |-> FALSE, list |-> <<>>]
Passed(list) == [passed |-> TRUE, list |-> list]

\* the default of the destructured prop: predefinedRanges = defaultPredefinedRanges
rangesOrDefault(prop, default) == IF prop.passed THEN prop.list ELSE default

\* the default of the destructured prop: maxDate = new Date()
maxDate == IF maxDateProp = Undef THEN now ELSE maxDateProp

\* the relational operator < on two Dates: false when either is Invalid
DateLt(a, b) == a # NaN /\ b # NaN /\ a < b

\* isDateDisabled with the bounds themselves disabled
isDateDisabledExclusive(date) ==
    IF minDate # Undef /\ (DateLt(date, minDate) \/ date = minDate) THEN TRUE
    ELSE IF DateLt(maxDate, date) \/ date = maxDate THEN TRUE
    ELSE FALSE

isDateDisabled(date) ==
    IF minDate # Undef /\ DateLt(date, minDate) THEN TRUE
    ELSE IF DateLt(maxDate, date) THEN TRUE
    ELSE FALSE

\* the clock and the props no handler reads, as they are when a picker is
\* mounted right after the module loaded, with none of these props passed
Mounted ==
    /\ now = Epoch
    /\ reads = [i \in 1..12 |-> Epoch]
    /\ minDate = Undef
    /\ maxDateProp = Undef
    /\ showCalendar = TRUE
    /\ showPredefinedRanges = TRUE
    /\ hostAdopts = FALSE

(* ---------------------------- results ---------------------------------- *)

\* what format(date, "LLL dd, y") returns: the text of the calendar day of the
\* date, here the number of the day; or the RangeError it throws
FormatThrows == -3
Days == {t \div TicksPerDay : t \in Timestamps}

\* what formatDateRange returns: the placeholder, one formatted date, or two
\* joined by " - "; or the RangeError thrown by format
Texts ==
    [kind : {"placeholder", "throws"}, a : {Undef}, b : {Undef}]
    \cup [kind : {"single"}, a : Days, b : {Undef}]
    \cup [kind : {"pair"}, a : Days, b : Days]

NoText == [kind |-> "placeholder", a |-> Undef, b |-> Undef]

FnNames == {"none", "isValidDateRange", "isRangeEqual", "formatDateRange"}

Results == [fn : FnNames, bool : BOOLEAN, text : Texts]

NoResult == [fn |-> "none", bool |-> FALSE, text |-> NoText]

(* ---------------------------- range model ------------------------------ *)

\* Date.prototype.toDateString: the text of the calendar day, here the number
\* of the day; "Invalid Date" for an Invalid Date
InvalidDateString == NaN
toDateString(d) == IF d = NaN THEN InvalidDateString ELSE d \div TicksPerDay

\* isRangeEqual comparing the timestamps instead of the calendar days
isRangeEqualByInstant(range1, range2) ==
    IF NoFrom(range1) \/ NoTo(range1) \/ NoFrom(range2) \/ NoTo(range2)
    THEN FALSE
    ELSE /\ range1.from = range2.from /\ range1.from # NaN
         /\ range1.to = range2.to /\ range1.to # NaN

isRangeEqual(range1, range2) ==
    IF NoFrom(range1) \/ NoTo(range1) \/ NoFrom(range2) \/ NoTo(range2)
    THEN FALSE
    ELSE /\ toDateString(range1.from) = toDateString(range2.from)
         /\ toDateString(range1.to) = toDateString(range2.to)

\* date-fns format(date, "LLL dd, y"): throws a RangeError on an Invalid Date
format(d) == IF d = NaN THEN FormatThrows ELSE d \div TicksPerDay

\* the template literal of two formatted dates; a throw of either propagates
Joined(a, b) ==
    IF a = FormatThrows \/ b = FormatThrows
    THEN [kind |-> "throws", a |-> Undef, b |-> Undef]
    ELSE [kind |-> "pair", a |-> a, b |-> b]

Single(a) ==
    IF a = FormatThrows
    THEN [kind |-> "throws", a |-> Undef, b |-> Undef]
    ELSE [kind |-> "single", a |-> a, b |-> Undef]

\* getTime() === getTime(): NaN is not equal to itself
SameTime(a, b) == a # NaN /\ b # NaN /\ a = b

formatDateRange(range) ==
    IF NoFrom(range) THEN NoText
    ELSE IF range.to = Undef THEN Single(format(range.from))
    ELSE IF SameTime(range.from, range.to) THEN Single(format(range.from))
    ELSE Joined(format(range.from), format(range.to))

(* ---------------------------- state ------------------------------------ *)

OpNames == {"init", "valueEffect", "handleRangeSelect", "handlePredefinedRangeSelect",
            "handleApply", "handleClear", "handleOpenChange", "onValueChange",
            "render"}

TypeOK ==
    /\ value \in OptDateRange
    /\ tempRange \in OptDateRange
    /\ open \in BOOLEAN
    /\ predefinedRanges \in Catalogs
    /\ \A i \in 1..Len(predefinedRanges) :
          predefinedRanges[i] \in [label : Labels, value : ShortcutValues]
    /\ applyOnPredefinedSelect \in BOOLEAN
    /\ clearOnSelect \in BOOLEAN
    /\ closeOnClear \in BOOLEAN
    /\ op \in OpNames
    /\ arg \in OptDateRange
    /\ fired \in Seq(OptDateRange) /\ Len(fired) <= 1
    /\ label \in Labels \cup {NoLabel}
    /\ applies \in 0..MaxApplies
    /\ arg1 \in OptDateRange
    /\ arg2 \in OptDateRange
    /\ result \in Results
    /\ now \in Clock
    /\ reads \in [1..12 -> Clock]
    /\ rangesProp \in {NotPassed} \cup {Passed(c) : c \in Catalogs}
    /\ minDate \in Clock \cup {NaN, Undef}
    /\ maxDateProp \in Clock \cup {NaN, Undef}
    /\ showCalendar \in BOOLEAN
    /\ showPredefinedRanges \in BOOLEAN
    /\ hostAdopts \in BOOLEAN

\* useState(false), useState(value); the mount effect sets tempRange to value
Init ==
    /\ value \in OptDateRange
    /\ tempRange = value
    /\ open = FALSE
    /\ Mounted
    /\ rangesProp \in {Passed(c) : c \in Catalogs}
    /\ predefinedRanges = rangesOrDefault(rangesProp, defaultPredefinedRanges)
    /\ applyOnPredefinedSelect \in BOOLEAN
    /\ clearOnSelect \in BOOLEAN
    /\ closeOnClear \in BOOLEAN
    /\ op = "init"
    /\ arg = undefined
    /\ fired = <<>>
    /\ label = NoLabel
    /\ applies = 0
    /\ arg1 = undefined
    /\ arg2 = undefined
    /\ result = NoResult

(* ---------------------------- handlers --------------------------------- *)

\* the effect copying the value only while the popover is closed
valueEffectWhenClosed(v) ==
    /\ value' = v
    /\ tempRange' = IF open THEN tempRange ELSE v
    /\ op' = "valueEffect"
    /\ label' = NoLabel
    /\ applies' = 0
    /\ arg' = v
    /\ fired' = <<>>
    /\ UNCHANGED <<open, props, pure, env>>

\* the host renders with a new value; the effect on [value] copies it
valueEffect(v) ==
    /\ value' = v
    /\ tempRange' = v
    /\ op' = "valueEffect"
    /\ label' = NoLabel
    /\ applies' = 0
    /\ arg' = v
    /\ fired' = <<>>
    /\ UNCHANGED <<open, props, pure, env>>

\* handleRangeSelect reporting every complete range to the host
handleRangeSelectNotifies(range) ==
    /\ tempRange' = range
    /\ op' = "handleRangeSelect"
    /\ label' = NoLabel
    /\ applies' = 0
    /\ arg' = range
    /\ fired' = IF isValidDateRange(range) THEN <<range>> ELSE <<>>
    /\ UNCHANGED <<value, open, props, pure, env>>

handleRangeSelect(range) ==
    /\ tempRange' = range
    /\ op' = "handleRangeSelect"
    /\ label' = NoLabel
    /\ applies' = 0
    /\ arg' = range
    /\ fired' = <<>>
    /\ UNCHANGED <<value, open, props, pure, env>>

\* handlePredefinedRangeSelect applying whatever the option says
handlePredefinedRangeSelectAlways(range) ==
    /\ tempRange' = range
    /\ fired' = <<range>>
    /\ open' = FALSE
    /\ op' = "handlePredefinedRangeSelect"
    /\ applies' = 0
    /\ arg' = range
    /\ UNCHANGED <<value, props, pure, env>>

\* handlePredefinedRangeSelect dropping a shortcut with a disabled bound
handlePredefinedRangeSelectWithinBounds(range) ==
    /\ IF range.defined /\ (isDateDisabled(range.from) \/ isDateDisabled(range.to))
       THEN fired' = <<>> /\ tempRange' = tempRange /\ open' = open
       ELSE /\ tempRange' = range
            /\ IF applyOnPredefinedSelect
               THEN fired' = <<range>> /\ open' = FALSE
               ELSE fired' = <<>> /\ open' = open
    /\ op' = "handlePredefinedRangeSelect"
    /\ applies' = 0
    /\ arg' = range
    /\ UNCHANGED <<value, props, pure, env>>

\* handlePredefinedRangeSelect emitting the range without storing it as the draft
handlePredefinedRangeSelectEmitsOnly(range) ==
    /\ IF applyOnPredefinedSelect
       THEN fired' = <<range>> /\ open' = FALSE /\ tempRange' = tempRange
       ELSE fired' = <<>> /\ open' = open /\ tempRange' = range
    /\ op' = "handlePredefinedRangeSelect"
    /\ applies' = 0
    /\ arg' = range
    /\ UNCHANGED <<value, props, pure, env>>

handlePredefinedRangeSelect(range) ==
    /\ tempRange' = range
    /\ IF applyOnPredefinedSelect
       THEN fired' = <<range>> /\ open' = FALSE
       ELSE fired' = <<>> /\ open' = open
    /\ op' = "handlePredefinedRangeSelect"
    /\ applies' = 0
    /\ arg' = range
    /\ UNCHANGED <<value, props, pure, env>>

\* handleApply emitting without closing the popover
handleApplyStaysOpen ==
    /\ IF ~tempRange.defined \/ isValidDateRange(tempRange)
       THEN fired' = <<tempRange>>
       ELSE fired' = <<>>
    /\ open' = open
    /\ op' = "handleApply"
    /\ label' = NoLabel
    /\ applies' = IF applies < MaxApplies THEN applies + 1 ELSE applies
    /\ arg' = undefined
    /\ UNCHANGED <<value, tempRange, props, pure, env>>

\* handleApply declining an undefined draft
handleApplyNeedsRange ==
    /\ IF isValidDateRange(tempRange)
       THEN fired' = <<tempRange>> /\ open' = FALSE
       ELSE fired' = <<>> /\ open' = open
    /\ op' = "handleApply"
    /\ label' = NoLabel
    /\ applies' = IF applies < MaxApplies THEN applies + 1 ELSE applies
    /\ arg' = undefined
    /\ UNCHANGED <<value, tempRange, props, pure, env>>

\* handleApply toggling the popover instead of closing it
handleApplyToggles ==
    /\ IF ~tempRange.defined \/ isValidDateRange(tempRange)
       THEN fired' = <<tempRange>> /\ open' = ~open
       ELSE fired' = <<>> /\ open' = open
    /\ op' = "handleApply"
    /\ label' = NoLabel
    /\ applies' = IF applies < MaxApplies THEN applies + 1 ELSE applies
    /\ arg' = undefined
    /\ UNCHANGED <<value, tempRange, props, pure, env>>

handleApply ==
    /\ IF ~tempRange.defined \/ isValidDateRange(tempRange)
       THEN fired' = <<tempRange>> /\ open' = FALSE
       ELSE fired' = <<>> /\ open' = open
    /\ op' = "handleApply"
    /\ label' = NoLabel
    /\ applies' = IF applies < MaxApplies THEN applies + 1 ELSE applies
    /\ arg' = undefined
    /\ UNCHANGED <<value, tempRange, props, pure, env>>

\* handleClear closing the popover whatever closeOnClear says
handleClearAlwaysCloses ==
    /\ tempRange' = undefined
    /\ IF clearOnSelect
       THEN fired' = <<undefined>> /\ open' = FALSE
       ELSE fired' = <<>> /\ open' = open
    /\ op' = "handleClear"
    /\ label' = NoLabel
    /\ applies' = 0
    /\ arg' = undefined
    /\ UNCHANGED <<value, props, pure, env>>

\* handleClear reading closeOnClear outside the clearOnSelect branch
handleClearClosesOnItsOwn ==
    /\ tempRange' = undefined
    /\ fired' = IF clearOnSelect THEN <<undefined>> ELSE <<>>
    /\ open' = IF closeOnClear THEN FALSE ELSE open
    /\ op' = "handleClear"
    /\ label' = NoLabel
    /\ applies' = 0
    /\ arg' = undefined
    /\ UNCHANGED <<value, props, pure, env>>

handleClear ==
    /\ tempRange' = undefined
    /\ IF clearOnSelect
       THEN /\ fired' = <<undefined>>
            /\ open' = IF closeOnClear THEN FALSE ELSE open
       ELSE fired' = <<>> /\ open' = open
    /\ op' = "handleClear"
    /\ label' = NoLabel
    /\ applies' = 0
    /\ arg' = undefined
    /\ UNCHANGED <<value, props, pure, env>>

\* handleOpenChange resetting the draft on every close
handleOpenChangeAlwaysResets(newOpen) ==
    /\ open' = newOpen
    /\ tempRange' = IF ~newOpen THEN value ELSE tempRange
    /\ op' = "handleOpenChange"
    /\ label' = NoLabel
    /\ applies' = 0
    /\ arg' = undefined
    /\ fired' = <<>>
    /\ UNCHANGED <<value, props, pure, env>>

\* handleOpenChange resetting the draft on opening as well
handleOpenChangeResetsOnOpen(newOpen) ==
    /\ open' = newOpen
    /\ tempRange' = IF ~applyOnPredefinedSelect THEN value ELSE tempRange
    /\ op' = "handleOpenChange"
    /\ label' = NoLabel
    /\ applies' = 0
    /\ arg' = undefined
    /\ fired' = <<>>
    /\ UNCHANGED <<value, props, pure, env>>

\* handleOpenChange refusing to close on a draft that is not valid
handleOpenChangeKeepsInvalidOpen(newOpen) ==
    /\ open' = IF ~newOpen /\ tempRange.defined /\ ~isValidDateRange(tempRange)
               THEN open ELSE newOpen
    /\ tempRange' = IF ~newOpen /\ ~applyOnPredefinedSelect THEN value ELSE tempRange
    /\ op' = "handleOpenChange"
    /\ label' = NoLabel
    /\ applies' = 0
    /\ arg' = undefined
    /\ fired' = <<>>
    /\ UNCHANGED <<value, props, pure, env>>

\* handleOpenChange without the reset
handleOpenChangeNeverResets(newOpen) ==
    /\ open' = newOpen
    /\ tempRange' = tempRange
    /\ op' = "handleOpenChange"
    /\ label' = NoLabel
    /\ applies' = 0
    /\ arg' = undefined
    /\ fired' = <<>>
    /\ UNCHANGED <<value, props, pure, env>>

\* handleOpenChange reporting the reset to the host
handleOpenChangeNotifies(newOpen) ==
    /\ open' = newOpen
    /\ tempRange' = IF ~newOpen /\ ~applyOnPredefinedSelect THEN value ELSE tempRange
    /\ op' = "handleOpenChange"
    /\ label' = NoLabel
    /\ applies' = 0
    /\ arg' = undefined
    /\ fired' = IF ~newOpen /\ ~applyOnPredefinedSelect THEN <<value>> ELSE <<>>
    /\ UNCHANGED <<value, props, pure, env>>

handleOpenChange(newOpen) ==
    /\ open' = newOpen
    /\ tempRange' = IF ~newOpen /\ ~applyOnPredefinedSelect THEN value ELSE tempRange
    /\ op' = "handleOpenChange"
    /\ label' = NoLabel
    /\ applies' = 0
    /\ arg' = undefined
    /\ fired' = <<>>
    /\ UNCHANGED <<value, props, pure, env>>

(* ---------------------------- what is rendered ------------------------ *)

\* the disabled prop of the Clear button
clearDisabled == ~tempRange.defined

\* the Apply button disabled on every draft that is not valid, undefined included
applyDisabledWithoutDraft == ~isValidDateRange(tempRange)

\* the disabled prop of the Apply button
applyDisabled == tempRange # undefined /\ ~isValidDateRange(tempRange)

\* isRangeSelected comparing with the committed value
isRangeSelectedOfValue(predefinedRange) == isRangeEqual(predefinedRange, value)

isRangeSelected(predefinedRange) == isRangeEqual(predefinedRange, tempRange)

\* the trigger showing the draft
triggerTextOfDraft == formatDateRange(tempRange)

\* the text of the trigger button (and of its aria-label)
triggerText == formatDateRange(value)

\* aria-pressed (and the secondary variant) of the i-th shortcut button
isSelected(i) == isRangeSelected(predefinedRanges[i].value)

(* ---------------------------- gestures --------------------------------- *)

\* a click on an entry of the shortcut list
PredefinedClick ==
    \E i \in 1..Len(predefinedRanges) :
        /\ handlePredefinedRangeSelect(predefinedRanges[i].value)
        /\ label' = NoLabel

\* find returning the last entry with the label
findLast(ranges, v) ==
    IF \E i \in 1..Len(ranges) : ranges[i].label = v
    THEN CHOOSE i \in 1..Len(ranges) :
            /\ ranges[i].label = v
            /\ \A j \in (i + 1)..Len(ranges) : ranges[j].label # v
    ELSE 0

\* Array.prototype.find on the label, as the index of the entry it returns:
\* the one with the smallest index; 0 for undefined
find(ranges, v) ==
    IF \E i \in 1..Len(ranges) : ranges[i].label = v
    THEN CHOOSE i \in 1..Len(ranges) :
            /\ ranges[i].label = v
            /\ \A j \in 1..(i - 1) : ranges[j].label # v
    ELSE 0

\* the Select of the mobile layout reports the label v
SelectValueChange(v) ==
    LET selectedRange == find(predefinedRanges, v) IN
    /\ label' = v
    /\ IF selectedRange # 0
       THEN handlePredefinedRangeSelect(predefinedRanges[selectedRange].value)
       ELSE /\ op' = "onValueChange"
            /\ arg' = undefined
            /\ fired' = <<>>
            /\ applies' = 0
            /\ UNCHANGED <<value, tempRange, open, props, pure, env>>

Next ==
    \/ \E v \in OptDateRange : valueEffect(v)
    \/ \E range \in OptDateRange : handleRangeSelect(range)
    \/ PredefinedClick
    \/ \E v \in Labels : SelectValueChange(v)
    \/ handleApply
    \/ handleClear
    \/ \E newOpen \in BOOLEAN : handleOpenChange(newOpen)

Spec == Init /\ [][Next]_vars

(* ---------------------------- the Range Model on its own --------------- *)

\* the arguments are drawn from all ranges; the component is left as mounted
\* with no value and the default options
InitRange ==
    /\ arg1 \in OptDateRange
    /\ arg2 \in OptDateRange
    /\ result = NoResult
    /\ value = undefined
    /\ tempRange = undefined
    /\ open = FALSE
    /\ Mounted
    /\ rangesProp \in {Passed(c) : c \in Catalogs}
    /\ predefinedRanges = rangesOrDefault(rangesProp, defaultPredefinedRanges)
    /\ applyOnPredefinedSelect = TRUE
    /\ clearOnSelect = TRUE
    /\ closeOnClear = TRUE
    /\ op = "init"
    /\ arg = undefined
    /\ fired = <<>>
    /\ label = NoLabel
    /\ applies = 0

component == <<value, tempRange, open, props, op, arg, fired, label, applies, env>>

CallIsValidDateRange ==
    /\ result' = [fn |-> "isValidDateRange", bool |-> isValidDateRange(arg1),
                  text |-> NoText]
    /\ UNCHANGED <<arg1, arg2, component>>

CallIsRangeEqual ==
    /\ result' = [fn |-> "isRangeEqual", bool |-> isRangeEqual(arg1, arg2),
                  text |-> NoText]
    /\ UNCHANGED <<arg1, arg2, component>>

CallFormatDateRange ==
    /\ result' = [fn |-> "formatDateRange", bool |-> FALSE,
                  text |-> formatDateRange(arg1)]
    /\ UNCHANGED <<arg1, arg2, component>>

NextRange ==
    \/ CallIsValidDateRange
    \/ CallIsRangeEqual
    \/ CallFormatDateRange

SpecRange == InitRange /\ [][NextRange]_vars

(* ---------------------------- Catalog ---------------------------------- *)

\* a later render: the clock has advanced and the component function runs
\* again, destructuring its props with their defaults
Render ==
    /\ now < Epoch + MaxClock
    /\ now' = now + 1
    /\ UNCHANGED <<reads, rangesProp, minDate, maxDateProp, showCalendar,
                   showPredefinedRanges, hostAdopts>>
    /\ predefinedRanges' = rangesOrDefault(rangesProp, defaultPredefinedRanges)'
    /\ op' = "render"
    /\ arg' = undefined
    /\ fired' = <<>>
    /\ UNCHANGED <<value, tempRange, open, applyOnPredefinedSelect, clearOnSelect,
                   closeOnClear, label, applies, pure>>

\* the module loads while the clock runs, then a picker is mounted with the
\* list passed or not and every other prop at its default
InitCatalog ==
    /\ reads \in Reads
    /\ now = reads[12]
    /\ rangesProp \in {NotPassed} \cup {Passed(c) : c \in Catalogs}
    /\ predefinedRanges = rangesOrDefault(rangesProp, defaultPredefinedRanges)
    /\ minDate = Undef
    /\ maxDateProp = Undef
    /\ showCalendar = TRUE
    /\ showPredefinedRanges = TRUE
    /\ hostAdopts = FALSE
    /\ value = undefined
    /\ tempRange = value
    /\ open = FALSE
    /\ applyOnPredefinedSelect = TRUE
    /\ clearOnSelect = TRUE
    /\ closeOnClear = TRUE
    /\ op = "init"
    /\ arg = undefined
    /\ fired = <<>>
    /\ label = NoLabel
    /\ applies = 0
    /\ arg1 = undefined
    /\ arg2 = undefined
    /\ result = NoResult

NextCatalog ==
    \/ Render
    \/ PredefinedClick
    \/ \E newOpen \in BOOLEAN : handleOpenChange(newOpen)

SpecCatalog == InitCatalog /\ [][NextCatalog]_vars

(* ---------------------------- Calendar --------------------------------- *)

\* the days the calendar shows, as the Dates it passes to disabled and reports
CalendarDays ==
    {startOfDay(Epoch) + k * TicksPerDay : k \in -1..1}

\* what the Calendar in range mode may report after a click on the day d with
\* tempRange selected: nothing, or bounds taken from d and the selected range
Reported(d) ==
    LET kept == IF tempRange.defined THEN {tempRange.from, tempRange.to} \ {Undef}
                ELSE {}
    IN {undefined} \cup {RangeOf(f, t) : f \in {d} \cup kept, t \in {d, Undef} \cup kept}

\* a click on a day of the calendar: disabled days take no click
CalendarSelect ==
    \E d \in CalendarDays :
        /\ ~isDateDisabled(d)
        /\ \E range \in Reported(d) : handleRangeSelect(range)

\* a picker with the default shortcuts, mounted as the module has loaded, with
\* any minDate and maxDate
InitCalendar ==
    /\ now \in Clock
    /\ reads = [i \in 1..12 |-> now]
    /\ rangesProp = NotPassed
    /\ predefinedRanges = rangesOrDefault(rangesProp, defaultPredefinedRanges)
    /\ minDate \in Clock \cup {NaN, Undef}
    /\ maxDateProp \in Clock \cup {NaN, Undef}
    /\ showCalendar = TRUE
    /\ showPredefinedRanges = TRUE
    /\ hostAdopts = FALSE
    /\ value = undefined
    /\ tempRange = value
    /\ open = FALSE
    /\ applyOnPredefinedSelect \in BOOLEAN
    /\ clearOnSelect = TRUE
    /\ closeOnClear = TRUE
    /\ op = "init"
    /\ arg = undefined
    /\ fired = <<>>
    /\ label = NoLabel
    /\ applies = 0
    /\ arg1 = undefined
    /\ arg2 = undefined
    /\ result = NoResult

NextCalendar ==
    \/ CalendarSelect
    \/ PredefinedClick
    \/ handleApply
    \/ \E newOpen \in BOOLEAN : handleOpenChange(newOpen)

SpecCalendar == InitCalendar /\ [][NextCalendar]_vars

(* ---------------------------- Surface ---------------------------------- *)

\* the ranges the Calendar reports: nothing, a first day, or two days
CalendarRanges ==
    {undefined} \cup {RangeOf(f, t) : f \in Timestamps, t \in Timestamps \cup {Undef}}

\* the host has been handed a value it is going to adopt
adopting == hostAdopts /\ fired # <<>>

\* the host sets the value prop to what onChange reported
HostAdopts ==
    /\ adopting
    /\ valueEffect(fired[1])

\* the trigger: the Popover asks to open when closed and to close when open
TriggerOrDismiss ==
    /\ ~adopting
    /\ handleOpenChange(~open)

\* CalendarContent is rendered in the open popover when showCalendar is set
CalendarShown == open /\ showCalendar

\* the Calendar, the Clear button and the Apply button of CalendarContent
CalendarGesture ==
    /\ ~adopting
    /\ CalendarShown
    /\ \E range \in CalendarRanges : handleRangeSelect(range)

ClearClick ==
    /\ ~adopting
    /\ CalendarShown
    /\ ~clearDisabled
    /\ handleClear

\* the Apply button rendered without the calendar too
ApplyAlwaysShown ==
    /\ ~adopting
    /\ open
    /\ ~applyDisabled
    /\ handleApply

ApplyClick ==
    /\ ~adopting
    /\ CalendarShown
    /\ ~applyDisabled
    /\ handleApply

\* PredefinedRangesContent is rendered when showPredefinedRanges is set (the
\* desktop layout, and the mobile layout without the calendar)
ShortcutClick ==
    /\ ~adopting
    /\ open
    /\ showPredefinedRanges
    /\ PredefinedClick

\* the Select of the mobile layout is rendered when both are set
SelectGesture ==
    /\ ~adopting
    /\ open
    /\ showPredefinedRanges
    /\ showCalendar
    /\ \E v \in Labels : SelectValueChange(v)

\* a picker mounted closed with any of the flags, and a host that adopts what
\* onChange reports or ignores it
InitSurface ==
    /\ now = Epoch
    /\ reads = [i \in 1..12 |-> Epoch]
    /\ rangesProp \in {Passed(c) : c \in Catalogs}
    /\ predefinedRanges = rangesOrDefault(rangesProp, defaultPredefinedRanges)
    /\ minDate = Undef
    /\ maxDateProp = Undef
    /\ showCalendar \in BOOLEAN
    /\ showPredefinedRanges \in BOOLEAN
    /\ hostAdopts \in BOOLEAN
    /\ value = undefined
    /\ tempRange = value
    /\ open = FALSE
    /\ applyOnPredefinedSelect \in BOOLEAN
    /\ clearOnSelect \in BOOLEAN
    /\ closeOnClear \in BOOLEAN
    /\ op = "init"
    /\ arg = undefined
    /\ fired = <<>>
    /\ label = NoLabel
    /\ applies = 0
    /\ arg1 = undefined
    /\ arg2 = undefined
    /\ result = NoResult

NextSurface ==
    \/ HostAdopts
    \/ TriggerOrDismiss
    \/ CalendarGesture
    \/ ClearClick
    \/ ApplyClick
    \/ ShortcutClick
    \/ SelectGesture

SpecSurface == InitSurface /\ [][NextSurface]_vars

(* ---------------------------- properties ------------------------------- *)

\* a complete valid range, stated on the timestamps: both bounds are set, both
\* are valid dates and from <= to
CompleteValid(r) ==
    /\ r.defined
    /\ r.from \in Timestamps
    /\ r.to \in Timestamps
    /\ r.from <= r.to

\* the values of the entries of the catalog
CatalogValues == {predefinedRanges[i].value : i \in 1..Len(predefinedRanges)}

\* C1: apply() commits only when the draft is absent or a complete valid range;
\* with a draft that is present but invalid (partial, reversed, invalid date)
\* it fires no callback and leaves draft, committed and the disclosure as they were.
C1_ApplyDeclinesInvalidDraft ==
    [][op' = "handleApply" =>
         /\ fired' # <<>> => (~tempRange.defined \/ CompleteValid(tempRange))
         /\ (tempRange.defined /\ ~CompleteValid(tempRange)) =>
                /\ fired' = <<>>
                /\ tempRange' = tempRange
                /\ open' = open
                /\ value' = value]_vars

\* C1 witness: apply has run on an open picker whose draft has only from set
C1_Witness ==
    /\ op = "handleApply"
    /\ open
    /\ fired = <<>>
    /\ tempRange.defined /\ tempRange.from \in Timestamps /\ tempRange.to = Undef

\* C2: an allowed apply() (draft absent or complete valid) emits exactly the
\* draft, closes the disclosure and leaves the draft unchanged.
C2_ApplyEmitsDraftAndCloses ==
    [][(op' = "handleApply" /\ (~tempRange.defined \/ CompleteValid(tempRange))) =>
         /\ fired' = <<tempRange>>
         /\ open' = FALSE
         /\ tempRange' = tempRange]_vars

\* C2 witness: apply has emitted a complete draft that differs from committed
C2_Witness ==
    /\ op = "handleApply"
    /\ fired = <<tempRange>>
    /\ CompleteValid(tempRange)
    /\ tempRange # value
    /\ ~open

\* C3: every value passed to the change callback is absent or a complete
\* valid range.
C3_OnlyValidRangesEmitted ==
    \A i \in 1..Len(fired) : ~fired[i].defined \/ CompleteValid(fired[i])

\* C4: selectDraftRange(range) stores the range verbatim and changes nothing
\* else: no callback, committed and isOpen unchanged.
C4_RangeSelectOnlySetsDraft ==
    [][op' = "handleRangeSelect" =>
         /\ tempRange' = arg'
         /\ fired' = <<>>
         /\ value' = value
         /\ open' = open]_vars

\* C4 witness: a reversed range has been stored as the draft of an open picker
C4_Witness ==
    /\ op = "handleRangeSelect"
    /\ open
    /\ tempRange = arg
    /\ tempRange.defined /\ tempRange.from \in Timestamps /\ tempRange.to \in Timestamps
    /\ tempRange.from > tempRange.to
    /\ fired = <<>>

\* C5: after an external value change to v the draft equals v, whatever the
\* draft was and whether the disclosure is open; isOpen is unchanged and no
\* callback is fired.
C5_ExternalChangeOverwritesDraft ==
    [][op' = "valueEffect" =>
         /\ value' = arg'
         /\ tempRange' = arg'
         /\ open' = open
         /\ fired' = <<>>]_vars

\* C5 witness: an external change has arrived while the picker is open
C5_Witness ==
    /\ op = "valueEffect"
    /\ open
    /\ tempRange = value
    /\ value.defined
    /\ fired = <<>>

\* C6: selectPredefinedRange(range) sets the draft to range; with
\* apply-on-predefined-select it fires the callback once with range and closes,
\* without it no callback is fired and isOpen and committed are unchanged.
C6_PredefinedSelect ==
    [][op' = "handlePredefinedRangeSelect" =>
         /\ arg' \in CatalogValues
         /\ tempRange' = arg'
         /\ value' = value
         /\ IF applyOnPredefinedSelect
            THEN fired' = <<arg'>> /\ open' = FALSE
            ELSE fired' = <<>> /\ open' = open]_vars

\* C6 witness: a shortcut was picked with the option disabled, the picker open
C6_Witness ==
    /\ op = "handlePredefinedRangeSelect"
    /\ ~applyOnPredefinedSelect
    /\ open
    /\ tempRange = arg
    /\ tempRange # value
    /\ fired = <<>>

\* C7: clear() sets the draft to absent; with clear-on-select it fires the
\* callback with absent, and closes only when close-on-clear is enabled too.
C7_Clear ==
    [][op' = "handleClear" =>
         /\ tempRange' = undefined
         /\ clearOnSelect => fired' = <<undefined>>
         /\ (clearOnSelect /\ closeOnClear) => open' = FALSE
         /\ (clearOnSelect /\ ~closeOnClear) => open' = open]_vars

\* C7 witness: clear with clear-on-select but without close-on-clear left the
\* picker open
C7_Witness ==
    /\ op = "handleClear"
    /\ clearOnSelect /\ ~closeOnClear
    /\ open
    /\ tempRange = undefined
    /\ value.defined
    /\ fired = <<undefined>>

\* C8: with clear-on-select disabled clear() fires no callback and leaves
\* committed unchanged; an apply() that follows emits absent and closes.
C8_ClearIsLocalUntilApply ==
    [][/\ (op' = "handleClear" /\ ~clearOnSelect) =>
            (fired' = <<>> /\ value' = value /\ tempRange' = undefined)
       /\ (op = "handleClear" /\ ~clearOnSelect /\ op' = "handleApply") =>
            (fired' = <<undefined>> /\ open' = FALSE)]_vars

\* C8 witness: apply has emitted absent with clear-on-select disabled while
\* committed still holds a range
C8_Witness ==
    /\ op = "handleApply"
    /\ ~clearOnSelect
    /\ value.defined
    /\ fired = <<undefined>>
    /\ ~open

C10_DismissAlwaysResetsDraft ==
    (op = "handleOpenChange" /\ ~open) => tempRange = value

\* C11: the apply control is enabled exactly when apply() would commit (draft
\* absent or complete valid) and disabled exactly when it would be a no-op; the
\* clear control is enabled exactly when the draft is present.
C11_ControlsMirrorTheGate ==
    /\ [](/\ applyDisabled <=> (tempRange.defined /\ ~CompleteValid(tempRange))
          /\ clearDisabled <=> ~tempRange.defined)
    /\ [][op' = "handleApply" => (applyDisabled <=> fired' = <<>>)]_vars

\* C11 witness: apply has committed an absent draft, for which the apply control
\* is enabled and the clear control is disabled
C11_Witness ==
    /\ op = "handleApply"
    /\ ~tempRange.defined
    /\ fired = <<undefined>>
    /\ ~applyDisabled
    /\ clearDisabled
    /\ value.defined

\* a complete range: both bounds are set
Complete(r) == r.defined /\ r.from # Undef /\ r.to # Undef

\* the calendar day a date falls on, whatever its time of day; an Invalid Date
\* falls on no day and reads "Invalid Date"
CalendarDay(d) == IF d \in Timestamps THEN d \div TicksPerDay ELSE NaN

\* C12: isValidDateRange(r) is true if and only if from and to are both
\* present, both valid dates, and from <= to; equal bounds are valid, and an
\* absent or partial range is never valid.
C12_ValidIffCompleteOrdered ==
    result.fn = "isValidDateRange" =>
        /\ result.bool <=> CompleteValid(arg1)
        /\ ~Complete(arg1) => ~result.bool
        /\ (Complete(arg1) /\ arg1.from = arg1.to /\ arg1.from \in Timestamps)
              => result.bool

\* C12 witness: isValidDateRange has returned true for a range with equal bounds
C12_Witness ==
    /\ result.fn = "isValidDateRange"
    /\ result.bool
    /\ arg1.defined /\ arg1.from = arg1.to

\* C13: isRangeEqual(a, b) is true if and only if both ranges are complete and
\* their bounds fall on the same calendar days, ignoring the time of day; it is
\* false when either is absent or partial, and from <= to is not required.
C13_EqualIffSameDays ==
    result.fn = "isRangeEqual" =>
        /\ result.bool <=>
              /\ Complete(arg1) /\ Complete(arg2)
              /\ CalendarDay(arg1.from) = CalendarDay(arg2.from)
              /\ CalendarDay(arg1.to) = CalendarDay(arg2.to)
        /\ (~Complete(arg1) \/ ~Complete(arg2)) => ~result.bool

\* C13 witness: isRangeEqual has returned true for two ranges that differ in
\* their times, one of them reversed
C13_Witness ==
    /\ result.fn = "isRangeEqual"
    /\ result.bool
    /\ arg1 # arg2
    /\ arg1.from \in Timestamps /\ arg1.to \in Timestamps
    /\ arg1.from > arg1.to

\* what C14 says formatDateRange returns
C14_Text(r) ==
    IF ~r.defined \/ r.from = Undef
    THEN [kind |-> "placeholder", a |-> Undef, b |-> Undef]
    ELSE IF r.to = Undef \/ r.to = r.from
    THEN [kind |-> "single", a |-> CalendarDay(r.from), b |-> Undef]
    ELSE [kind |-> "pair", a |-> CalendarDay(r.from), b |-> CalendarDay(r.to)]

\* C14: formatDateRange returns the placeholder when from is absent, the single
\* formatted from when to is absent or the identical instant, and otherwise
\* "<from> - <to>", also for two instants of the same calendar day.
C14_FormatThreeCases ==
    result.fn = "formatDateRange" => result.text = C14_Text(arg1)

\* C15: a shortcut is shown as selected exactly when isRangeEqual(shortcut.value,
\* draft) holds: the highlight follows the draft, not the committed value, and
\* with an absent or partial draft no shortcut is highlighted.
C15_HighlightFollowsDraft ==
    /\ \A i \in 1..Len(predefinedRanges) :
          isSelected(i) <=> isRangeEqual(predefinedRanges[i].value, tempRange)
    /\ ~Complete(tempRange) => \A i \in 1..Len(predefinedRanges) : ~isSelected(i)

\* C15 witness: a shortcut is highlighted that equals the draft and does not
\* equal the committed value
C15_Witness ==
    \E i \in 1..Len(predefinedRanges) :
        /\ isSelected(i)
        /\ value.defined
        /\ ~isRangeEqual(predefinedRanges[i].value, value)
        /\ tempRange # predefinedRanges[i].value

\* C16: a second apply() with no draft change in between has no additional
\* effect: draft and isOpen stay what they were after the first.
C16_ApplyTwice ==
    [][(applies >= 1 /\ op' = "handleApply") =>
         (tempRange' = tempRange /\ open' = open)]_vars

\* C16 witness: apply has run twice in a row on a complete draft and the picker
\* is closed
C16_Witness ==
    /\ applies = 2
    /\ op = "handleApply"
    /\ CompleteValid(tempRange)
    /\ fired = <<tempRange>>
    /\ ~open

\* C17: a range with an invalid Date is never valid and is never committed: no
\* emitted value contains an invalid date.
C17_NoInvalidDateEmitted ==
    /\ \A r \in {value, tempRange} :
          (r.defined /\ (r.from = NaN \/ r.to = NaN)) => ~isValidDateRange(r)
    /\ \A i \in 1..Len(fired) :
          fired[i].defined => (fired[i].from # NaN /\ fired[i].to # NaN)

\* the labels of the catalog
CatalogLabels == {predefinedRanges[i].label : i \in 1..Len(predefinedRanges)}

\* the value of the first catalog entry that carries the label
FirstValueOf(l) ==
    LET first == CHOOSE i \in 1..Len(predefinedRanges) :
                    /\ predefinedRanges[i].label = l
                    /\ \A j \in 1..Len(predefinedRanges) :
                          predefinedRanges[j].label = l => i <= j
    IN predefinedRanges[first].value

\* C18: selecting a label that is not in the catalog changes nothing and fires
\* no callback; selecting a label of the catalog behaves as selectPredefinedRange
\* on the first entry with that label.
C18_SelectByLabel ==
    [][label' # NoLabel =>
         IF label' \in CatalogLabels
         THEN /\ tempRange' = FirstValueOf(label')
              /\ value' = value
              /\ IF applyOnPredefinedSelect
                 THEN fired' = <<FirstValueOf(label')>> /\ open' = FALSE
                 ELSE fired' = <<>> /\ open' = open
         ELSE /\ tempRange' = tempRange
              /\ open' = open
              /\ value' = value
              /\ fired' = <<>>]_vars

\* C18 witness: the Select has reported a label that the catalog lacks, on an
\* open picker with an uncommitted draft, and nothing was emitted
C18_Witness ==
    /\ label # NoLabel
    /\ label \notin CatalogLabels
    /\ op = "onValueChange"
    /\ open
    /\ tempRange.defined
    /\ tempRange # value
    /\ fired = <<>>

\* C19: right after every operation that fires the callback the draft equals
\* the value just emitted.
C19_DraftEqualsEmitted ==
    fired # <<>> => tempRange = fired[Len(fired)]

\* C19 witness: an auto-applied shortcut has been emitted and is the draft
C19_Witness ==
    /\ op = "handlePredefinedRangeSelect"
    /\ applyOnPredefinedSelect
    /\ fired = <<tempRange>>
    /\ tempRange # value
    /\ ~open

\* C20: the picker starts closed with the draft equal to committed, and a
\* closed -> open transition changes only isOpen: draft and committed are
\* unchanged and no callback is fired.
C20_StartsClosedAndOpenKeepsDraft ==
    /\ (~open /\ tempRange = value)
    /\ [][(op' = "handleOpenChange" /\ ~open /\ open') =>
            (tempRange' = tempRange /\ value' = value /\ fired' = <<>>)]_vars

\* C20 witness: the picker was opened with apply-on-predefined-select disabled
\* and shows a draft that differs from committed
C20_Witness ==
    /\ op = "handleOpenChange"
    /\ open
    /\ ~applyOnPredefinedSelect
    /\ tempRange.defined
    /\ tempRange # value

\* C21: a disclosure-close request always results in isOpen = false, whatever
\* the draft and the flags are; closing by clear() and by a shortcut depends on
\* the flags only, and only apply() makes closing depend on the draft's validity.
C21_CloseRequestAlwaysCloses ==
    /\ [](ENABLED handleOpenChange(FALSE))
    /\ [][handleOpenChange(FALSE) => open' = FALSE]_vars
    /\ [][op' = "handleClear" =>
            open' = (IF clearOnSelect /\ closeOnClear THEN FALSE ELSE open)]_vars
    /\ [][op' = "handlePredefinedRangeSelect" =>
            open' = (IF applyOnPredefinedSelect THEN FALSE ELSE open)]_vars
    /\ [][op' = "handleApply" =>
            open' = (IF tempRange.defined /\ ~CompleteValid(tempRange)
                     THEN open ELSE FALSE)]_vars

\* C21 witness: a close request has closed the picker over a reversed draft
C21_Witness ==
    /\ op = "handleOpenChange"
    /\ ~open
    /\ tempRange.defined
    /\ tempRange.from \in Timestamps /\ tempRange.to \in Timestamps
    /\ tempRange.from > tempRange.to

\* C26: with clear-on-select disabled clear() leaves isOpen unchanged for either
\* value of close-on-clear.
C26_CloseOnClearNeedsClearOnSelect ==
    [][(op' = "handleClear" /\ ~clearOnSelect) => open' = open]_vars

\* C26 witness: clear has run with close-on-clear enabled and clear-on-select
\* disabled, and the picker is still open
C26_Witness ==
    /\ op = "handleClear"
    /\ ~clearOnSelect /\ closeOnClear
    /\ open
    /\ tempRange = undefined
    /\ fired = <<>>

\* C29: every operation fires the callback at most once; open, dismiss,
\* selectDraftRange and an external value change never fire it; the callback is
\* fired exactly by a successful apply, an auto-applied shortcut and a clear
\* with clear-on-select.
C29_CallbackOncePerCommit ==
    /\ Len(fired) <= 1
    /\ op \in {"init", "handleOpenChange", "handleRangeSelect", "valueEffect",
               "onValueChange"} => fired = <<>>
    /\ fired # <<>> <=>
          \/ op = "handleApply" /\ (~tempRange.defined \/ CompleteValid(tempRange))
          \/ op = "handlePredefinedRangeSelect" /\ applyOnPredefinedSelect
          \/ op = "handleClear" /\ clearOnSelect

\* C29 witness: a clear with clear-on-select and close-on-clear has fired the
\* callback once, with absent, and closed the picker
C29_Witness ==
    /\ op = "handleClear"
    /\ clearOnSelect /\ closeOnClear
    /\ Len(fired) = 1
    /\ fired[1] = undefined
    /\ value.defined
    /\ ~open

\* the operations that change the draft and not the committed value
DraftOps == {"handleRangeSelect", "handlePredefinedRangeSelect", "handleClear",
             "handleOpenChange", "onValueChange"}

\* C30: the trigger's text is formatDateRange(committed), so the operations that
\* change only the draft never change what the trigger shows.
C30_TriggerShowsCommitted ==
    /\ [](triggerText = formatDateRange(value))
    /\ [][op' \in DraftOps => triggerText' = triggerText]_vars

\* C30 witness: the draft was changed on an open picker, and the trigger shows
\* the committed range, which reads differently from the draft
C30_Witness ==
    /\ op = "handleRangeSelect"
    /\ open
    /\ triggerText = formatDateRange(value)
    /\ triggerText.kind = "pair"
    /\ formatDateRange(tempRange) # triggerText

\* an instant of the clock's scale
Instant(d) == d \in Nat

\* a complete valid range on the clock's scale
CompleteOrdered(r) ==
    /\ r.defined
    /\ Instant(r.from)
    /\ Instant(r.to)
    /\ r.from <= r.to

\* the ticks at which a day and a month begin
DayStarts ==
    {t \in 0..(Epoch + MaxClock + CycleDays * TicksPerDay) : t % TicksPerDay = 0}
MonthStarts ==
    {t \in DayStarts : (t \div TicksPerDay) % CycleDays \in {0, MonthLengths[1]}}

LastAtOrBefore(S, n) == CHOOSE t \in S : t <= n /\ \A u \in S : u <= n => u <= t
FirstAfter(S, n) == CHOOSE t \in S : t > n /\ \A u \in S : u > n => t <= u

\* the table of the default shortcuts relative to the instant n
Table(n) ==
    LET today == LastAtOrBefore(DayStarts, n)
        month == LastAtOrBefore(MonthStarts, n)
    IN << RangeOf(today, FirstAfter(DayStarts, n) - 1),
          RangeOf(today - TicksPerDay, today - 1),
          RangeOf(n - 6 * TicksPerDay, n),
          RangeOf(n - 29 * TicksPerDay, n),
          RangeOf(month, FirstAfter(MonthStarts, n) - 1),
          RangeOf(LastAtOrBefore(MonthStarts, month - 1), month - 1) >>

DefaultLabels ==
    <<"Today", "Yesterday", "Last 7 Days", "Last 30 Days", "This Month", "Last Month">>

\* C23: with no list passed the catalog is the six default entries in their
\* order, with pairwise distinct labels, each complete and valid whatever the
\* (non-decreasing) clock readings were, and each the range of the table when
\* all readings were the same instant; a list that is passed is the catalog,
\* entry for entry, and a click on the i-th entry selects its value
C23_DefaultCatalog ==
    /\ ~rangesProp.passed =>
          /\ Len(predefinedRanges) = 6
          /\ \A i \in 1..6 :
                /\ predefinedRanges[i].label = DefaultLabels[i]
                /\ CompleteOrdered(predefinedRanges[i].value)
                /\ \A j \in 1..6 :
                      predefinedRanges[i].label = predefinedRanges[j].label => i = j
                /\ \A n \in Clock :
                      (\A k \in 1..12 : reads[k] = n)
                          => predefinedRanges[i].value = Table(n)[i]
    /\ rangesProp.passed => predefinedRanges = rangesProp.list
    /\ op = "handlePredefinedRangeSelect" => arg \in CatalogValues

C23_Witness ==
    /\ ~rangesProp.passed
    /\ reads[11] < reads[12]
    /\ op = "handlePredefinedRangeSelect"
    /\ arg = predefinedRanges[6].value
    /\ fired = <<arg>>

\* C24: the default shortcuts are built once: no operation, render or advance
\* of the clock changes the catalog, and each default entry stays the range
\* built from the clock readings taken at construction
C24_DefaultsBuiltOnce ==
    /\ [][predefinedRanges' = predefinedRanges]_vars
    /\ [](~rangesProp.passed => predefinedRanges = DefaultRanges(reads))
    /\ [][reads' = reads]_vars

C24_Witness ==
    /\ ~rangesProp.passed
    /\ op = "render"
    /\ now > reads[12]
    /\ dayOf(now) > dayOf(reads[1])
    /\ predefinedRanges[1].value.from = startOfDay(reads[1])

\* a is an instant before the instant b; an Invalid Date is before nothing
Before(a, b) == Instant(a) /\ Instant(b) /\ a < b

\* the instants around the clock
Window == (Epoch - TicksPerDay)..(Epoch + MaxClock + TicksPerDay)

\* the upper bound in force
UpperBound == IF maxDateProp = Undef THEN now ELSE maxDateProp

\* C22: a date d is disabled iff minDate is set and d is before minDate, or d
\* is after maxDate, which is now when the prop is not passed; a date equal
\* to a bound is enabled; when minDate is after maxDate every date is disabled
C22_DisabledIffOutsideBounds ==
    /\ \A d \in Window :
          isDateDisabled(d) <=> \/ minDate # Undef /\ Before(d, minDate)
                                \/ Before(UpperBound, d)
    /\ Before(UpperBound, minDate) => \A d \in Window : isDateDisabled(d)
    /\ \A d \in Window :
          d \in {minDate, UpperBound} /\ ~Before(UpperBound, minDate)
              => ~isDateDisabled(d)

C22_Witness ==
    /\ op = "handleRangeSelect"
    /\ Instant(minDate)
    /\ maxDateProp = Undef
    /\ tempRange = RangeOf(minDate, minDate)
    /\ minDate = now
    /\ isDateDisabled(minDate + TicksPerDay)

\* C28: minDate and maxDate are no part of selecting a shortcut or applying:
\* the shortcut's value becomes the draft and, with auto-apply, is reported
\* as it is; apply reports the draft as it is
C28_BoundsConstrainCalendarOnly ==
    /\ [][op' = "handlePredefinedRangeSelect" =>
            /\ tempRange' = arg'
            /\ arg' \in CatalogValues
            /\ IF applyOnPredefinedSelect
               THEN fired' = <<arg'>> /\ open' = FALSE
               ELSE fired' = <<>> /\ open' = open]_vars
    /\ [][op' = "handleApply" =>
            IF ~tempRange.defined \/ CompleteOrdered(tempRange)
            THEN fired' = <<tempRange>> /\ open' = FALSE /\ tempRange' = tempRange
            ELSE fired' = <<>> /\ open' = open /\ tempRange' = tempRange]_vars
    /\ [](\A i \in 1..Len(predefinedRanges) :
            ENABLED handlePredefinedRangeSelect(predefinedRanges[i].value))

C28_Witness ==
    /\ op = "handlePredefinedRangeSelect"
    /\ maxDateProp = Undef
    /\ arg = predefinedRanges[5].value
    /\ Before(now, arg.to)
    /\ isDateDisabled(arg.to)
    /\ tempRange = arg
    /\ fired = <<arg>>

\* C25: with auto-apply off and a host that adopts every reported value, the
\* draft equals the committed value whenever the popover is closed (once the
\* host has adopted); every commit leaves the reported value as the draft, so
\* with a host that ignores it the draft of the closed popover is the reported
\* value and not the committed one
C25_ClosedDraftIsCommitted ==
    /\ []((hostAdopts /\ ~applyOnPredefinedSelect /\ ~open /\ ~adopting)
            => tempRange = value)
    /\ [][fired' # <<>> => tempRange' = fired'[1] /\ value' = value]_vars
    /\ [][(~hostAdopts /\ ~open /\ ~open') => tempRange' = tempRange]_vars

C25_Witness ==
    /\ hostAdopts
    /\ ~applyOnPredefinedSelect
    /\ ~open
    /\ op = "valueEffect"
    /\ value.defined
    /\ tempRange = value

\* C27: Apply and Clear are there only with the calendar; without it nothing
\* but a shortcut selection with auto-apply calls onChange; without it and
\* with auto-apply off onChange is never called and a dismissal puts the draft
\* back to the committed value; with neither the calendar nor the shortcuts
\* no gesture changes the draft
C27_WithoutCalendar ==
    /\ [][op' \in {"handleApply", "handleClear", "handleRangeSelect"}
            => showCalendar]_vars
    /\ [][(~showCalendar /\ fired' # <<>>)
            => op' = "handlePredefinedRangeSelect" /\ applyOnPredefinedSelect]_vars
    /\ []((~showCalendar /\ ~applyOnPredefinedSelect) => fired = <<>>)
    /\ [][(~showCalendar /\ ~applyOnPredefinedSelect
             /\ op' = "handleOpenChange" /\ ~open') => tempRange' = value]_vars
    /\ [][(~showCalendar /\ ~showPredefinedRanges) => tempRange' = tempRange]_vars

C27_Witness ==
    /\ ~showCalendar
    /\ ~applyOnPredefinedSelect
    /\ op = "handlePredefinedRangeSelect"
    /\ open
    /\ tempRange # value
    /\ tempRange = arg
    /\ fired = <<>>

====
